---------------------------- MODULE Spec2Model ----------------------------
(***************************************************************************)
(* Model of scripts/compute_deepstate_summary.py: the snapshot pipeline    *)
(* main() and the pure functions it calls (area_km2_of_geojson,            *)
(* merged_geom, side_from_delta, fmt, centroid_lonlat_of_change).          *)
(*                                                                         *)
(* Numbers.  Python floats are modelled in fixed point:                    *)
(*   - ring areas returned by geod.polygon_area_perimeter are signed       *)
(*     integers in m^2 (multiples of 1000 m^2);                            *)
(*   - a km^2 value v is the integer 1000*v (three decimals), so           *)
(*     99.999 km^2 is 99999 and the threshold 100 km^2 is 100000;          *)
(*   - a coordinate in degrees is the integer 100000*deg (five decimals).  *)
(*                                                                         *)
(* Geometry.  The plane holds a fixed catalogue of shapes that are         *)
(* pairwise disjoint and do not touch: three polygons ("islands") and one  *)
(* line.  A shapely geometry is the set of catalogue shapes it covers;     *)
(* unary_union is set union, difference is set difference, and the         *)
(* constituent polygons of a merged geometry are its islands.              *)
(***************************************************************************)
EXTENDS Integers, Sequences, FiniteSets, TLC

(***************************************************************************)
(* Bounds of the model.                                                    *)
(***************************************************************************)
\* longest date index (deepstate_dates.json) a run is given
MaxDates == 9
\* longest feature list of a document given to the merge functions alone
MaxFeats == 2
\* the deltas given to the summary composer alone lie within MaxOffset
\* thousandths of a km^2 of 0 and of the rounding threshold
MaxOffset == 60

(***************************************************************************)
(* Program constants.                                                      *)
(***************************************************************************)
\* area_m2 / 1_000_000.0
M2PerKm2 == 1000000
\* i_week = max(0, i_latest - 7)
WeekBack == 7
\* fmt: abs(delta) >= 100
FmtThresholdKm2 == 100

(***************************************************************************)
(* The catalogue of shapes.                                                *)
(***************************************************************************)
Islands == {1, 2, 3}
Lines == {4}
Shapes == Islands \cup Lines

\* geod.polygon_area_perimeter on the exterior ring: SIGNED area in m^2
\* (the sign is the ring's winding).
ExteriorSignedM2(i) ==
    CASE i = 1 -> 99999000
      [] i = 2 -> -200456000
      [] i = 3 -> 20000000
      [] OTHER -> 0

\* geod.polygon_area_perimeter on each interior ring: SIGNED areas in m^2.
\* Island 3 is a planar-valid polygon whose hole measures larger than its
\* exterior on the ellipsoid (rings wider than 180 degrees of longitude).
InteriorsSignedM2(i) ==
    CASE i = 1 -> << >>
      [] i = 2 -> << 30000000, -20000000 >>
      [] i = 3 -> << -24000000 >>
      [] OTHER -> << >>

\* planar centroid (lon, lat) of each shape, in 1e-5 degrees, and its planar
\* weight (planar area for a polygon, length for the line)
ShapeCentroid(i) ==
    CASE i = 1 -> << 3050000, 5050000 >>
      [] i = 2 -> << 3300001, 4800002 >>
      [] i = 3 -> << -17000000, 500000 >>
      [] OTHER -> << 3700000, 4700000 >>

ShapeWeight(i) ==
    CASE i = 1 -> 1
      [] i = 2 -> 2
      [] i = 3 -> 4
      [] OTHER -> 1

(***************************************************************************)
(* Values.                                                                 *)
(***************************************************************************)
\* Python None for a geometry, and a shapely geometry covering `cells`
None == [some |-> FALSE, cells |-> {}]
Geom(cells) == [some |-> TRUE, cells |-> cells]
Regions == {None} \cup {Geom(c) : c \in SUBSET Shapes}

\* JSON null for a centroid; a centroid is << lon, lat >>
Null == << >>

Abs(x) == IF x < 0 THEN -x ELSE x
Max(a, b) == IF a >= b THEN a ELSE b

RECURSIVE SumSeqAbs(_)
SumSeqAbs(s) == IF s = << >> THEN 0 ELSE Abs(Head(s)) + SumSeqAbs(Tail(s))

\* Python round(x, ndigits) of a float: the multiples of `unit` nearest to x.
\* An exact decimal tie has no exact float, so either neighbour can result.
RoundNearest(x, unit) ==
    LET lo == (x \div unit) * unit
        r  == x - lo
    IN  IF r = 0 THEN {x}
        ELSE IF 2 * r < unit THEN {lo}
        ELSE IF 2 * r > unit THEN {lo + unit}
        ELSE {lo, lo + unit}


\* Exact quotient num/den (den > 0) rounded to the nearest integer, ties to
\* even: Python round(c.x, 5) of a coordinate counted in 1e-5 degrees.
RoundDiv(num, den) ==
    LET q == num \div den
        r == num - q * den
    IN  IF 2 * r < den THEN q
        ELSE IF 2 * r > den THEN q + 1
        ELSE IF q % 2 = 0 THEN q ELSE q + 1

(***************************************************************************)
(* Snapshot documents (the parsed GeoJSON) and their features.             *)
(*   feature kinds: "notdict"  the entry is no JSON object (null, string)  *)
(*                  "nogeom"   an object without a (truthy) "geometry"     *)
(*                  "badgeom"  a geometry shapely's shape() raises on      *)
(*                  "geom"     a geometry shape() accepts, covering cells  *)
(*   document kinds: "unreadable" read_json raises (no file, bad JSON)     *)
(*                   "notobject"  the JSON value has no .get (a list, ...) *)
(*                   "object"     a JSON object with a "features" list     *)
(***************************************************************************)
NotDict == [kind |-> "notdict", cells |-> {}]
NoGeom == [kind |-> "nogeom", cells |-> {}]
BadGeom == [kind |-> "badgeom", cells |-> {}]
G(cells) == [kind |-> "geom", cells |-> cells]
Features == {NotDict, NoGeom, BadGeom} \cup {G(c) : c \in SUBSET Shapes}

Unreadable == [kind |-> "unreadable", features |-> << >>]
NotObject == [kind |-> "notobject", features |-> << >>]
Doc(fs) == [kind |-> "object", features |-> fs]
NoDoc == [kind |-> "unset", features |-> << >>]

\* the result of a call: a value, or an uncaught exception
Ret(v) == [raised |-> FALSE, val |-> v]
Raise(v) == [raised |-> TRUE, val |-> v]

\* unary_union(geoms): the shapes covered by any of the geometries
RECURSIVE UnaryUnion(_)
UnaryUnion(geoms) ==
    IF geoms = << >> THEN {} ELSE Head(geoms) \cup UnaryUnion(Tail(geoms))

\* geom.geom_type of a non-empty geometry
GeomType(cells) ==
    IF cells \subseteq Islands
    THEN IF Cardinality(cells) = 1 THEN "Polygon" ELSE "MultiPolygon"
    ELSE IF cells \subseteq Lines THEN "LineString" ELSE "GeometryCollection"

\* the feature loop of area_km2_of_geojson: the list geoms, or the exception
\* f.get raises on an entry that is no object
RECURSIVE AreaCollect(_, _)
AreaCollect(feats, geoms) ==
    IF feats = << >> THEN Ret(geoms)
    ELSE LET f == Head(feats) IN
         IF f.kind = "notdict" THEN Raise(geoms)
         ELSE IF f.kind = "nogeom" THEN AreaCollect(Tail(feats), geoms)
         ELSE IF f.kind = "badgeom" THEN AreaCollect(Tail(feats), geoms)
         ELSE AreaCollect(Tail(feats), Append(geoms, f.cells))

\* the Polygon branch without the clamp
PolygonAreaM2NoClamp(i) ==
    Abs(ExteriorSignedM2(i)) - SumSeqAbs(InteriorsSignedM2(i))

\* one Polygon of geom_area_m2: abs(exterior) minus abs of each interior,
\* clamped at 0
PolygonAreaM2(i) ==
    Max(0, Abs(ExteriorSignedM2(i)) - SumSeqAbs(InteriorsSignedM2(i)))

RECURSIVE SumPolygons(_)
SumPolygons(cells) ==
    IF cells = {} THEN 0
    ELSE LET p == CHOOSE q \in cells : TRUE
         IN  PolygonAreaM2(p) + SumPolygons(cells \ {p})

RECURSIVE SumUnclamped(_)
SumUnclamped(cells) ==
    IF cells = {} THEN 0
    ELSE LET p == CHOOSE q \in cells : TRUE
         IN  PolygonAreaM2NoClamp(p) + SumUnclamped(cells \ {p})

\* geom_area_m2 with the clamp applied once, to the final sum
GeomAreaM2FinalClamp(cells) ==
    IF cells = {} THEN 0
    ELSE IF GeomType(cells) \in {"Polygon", "MultiPolygon"}
         THEN Max(0, SumUnclamped(cells))
    ELSE 0

\* geom_area_m2(geom)
GeomAreaM2(cells) ==
    IF cells = {} THEN 0
    ELSE IF GeomType(cells) = "Polygon"
         THEN PolygonAreaM2(CHOOSE p \in cells : TRUE)
    ELSE IF GeomType(cells) = "MultiPolygon" THEN SumPolygons(cells)
    ELSE 0

\* area_m2 / 1_000_000.0, as a km^2 value in thousandths
M2ToKm2(area_m2) == area_m2 \div (M2PerKm2 \div 1000)

\* area_km2_of_geojson(geojson_obj)
AreaKm2OfGeojson(doc) ==
    IF doc.kind # "object" THEN Raise(0)
    ELSE LET c == AreaCollect(doc.features, << >>) IN
         IF c.raised THEN Raise(0)
         ELSE IF c.val = << >> THEN Ret(0)
         ELSE Ret(M2ToKm2(GeomAreaM2(UnaryUnion(c.val))))

\* the feature loop of merged_geom
RECURSIVE MergedCollect(_, _)
MergedCollect(feats, geoms) ==
    IF feats = << >> THEN Ret(geoms)
    ELSE LET f == Head(feats) IN
         IF f.kind = "notdict" THEN Raise(geoms)
         ELSE IF f.kind = "nogeom" THEN MergedCollect(Tail(feats), geoms)
         ELSE IF f.kind = "badgeom" THEN MergedCollect(Tail(feats), geoms)
         ELSE MergedCollect(Tail(feats), Append(geoms, f.cells))

\* merged_geom(geojson_obj)
MergedGeom(doc) ==
    IF doc.kind # "object" THEN Raise(None)
    ELSE LET c == MergedCollect(doc.features, << >>) IN
         IF c.raised THEN Raise(None)
         ELSE IF c.val = << >> THEN Ret(None)
         ELSE Ret(Geom(UnaryUnion(c.val)))

(***************************************************************************)
(* side_from_delta and fmt.                                                *)
(***************************************************************************)
GainLabel == "orosz teruletszerzes"
RecaptureLabel == "ukran visszafoglalas"
NoChangeLabel == "nincs erdemi valtozas"

\* side_from_delta with the two comparisons exchanged
SideFromDeltaSwapped(delta) ==
    IF delta < 0 THEN GainLabel
    ELSE IF delta > 0 THEN RecaptureLabel
    ELSE NoChangeLabel

\* side_from_delta with the first test written >=
SideFromDeltaGe(delta) ==
    IF delta >= 0 THEN GainLabel
    ELSE IF delta < 0 THEN RecaptureLabel
    ELSE NoChangeLabel

\* side_from_delta(delta)
SideFromDelta(delta) ==
    IF delta > 0 THEN GainLabel
    ELSE IF delta < 0 THEN RecaptureLabel
    ELSE NoChangeLabel

\* round(x, 2) and round(x, 1) of a km^2 value in thousandths
Round2(x) == RoundNearest(x, 10)
Round1(x) == RoundNearest(x, 100)

\* fmt with the threshold tested on delta instead of abs(delta)
FmtNoAbs(delta) ==
    IF delta >= FmtThresholdKm2 * 1000 THEN Round1(delta)
    ELSE Round2(delta)

\* fmt(delta): the values round() can return
Fmt(delta) ==
    IF Abs(delta) >= FmtThresholdKm2 * 1000 THEN Round1(delta)
    ELSE Round2(delta)

(***************************************************************************)
(* centroid_lonlat_of_change.                                              *)
(***************************************************************************)
\* a.difference(b) of two geometries
Difference(a, b) == Geom(a.cells \ b.cells)

\* gained without the difference taken: all of today
GainedRegionAllOfToday(today, prev) == Geom(today.cells)

\* gained = today_geom.difference(prev_geom)
GainedRegion(today, prev) == Difference(today, prev)

\* the difference taken the same way round as gained
LostRegionSameWay(today, prev) == Difference(today, prev)

\* lost = prev_geom.difference(today_geom)
LostRegion(today, prev) == Difference(prev, today)

RECURSIVE WeightedSum(_, _)
WeightedSum(cells, k) ==
    IF cells = {} THEN 0
    ELSE LET p == CHOOSE q \in cells : TRUE
         IN  ShapeWeight(p) * ShapeCentroid(p)[k] + WeightedSum(cells \ {p}, k)

RECURSIVE TotalWeight(_)
TotalWeight(cells) ==
    IF cells = {} THEN 0
    ELSE LET p == CHOOSE q \in cells : TRUE
         IN  ShapeWeight(p) + TotalWeight(cells \ {p})

\* g.centroid: the centre of mass of the components of highest dimension
CentroidParts(cells) ==
    IF cells \cap Islands # {} THEN cells \cap Islands ELSE cells

\* safe_centroid answering an empty region with a default coordinate
SafeCentroidDefault(g) ==
    IF ~g.some \/ g.cells = {} THEN << 0, 0 >>
    ELSE LET parts == CentroidParts(g.cells)
             w == TotalWeight(parts)
         IN  << RoundDiv(WeightedSum(parts, 1), w),
                RoundDiv(WeightedSum(parts, 2), w) >>

\* safe_centroid(g)
SafeCentroid(g) ==
    IF ~g.some \/ g.cells = {} THEN Null
    ELSE LET parts == CentroidParts(g.cells)
             w == TotalWeight(parts)
         IN  << RoundDiv(WeightedSum(parts, 1), w),
                RoundDiv(WeightedSum(parts, 2), w) >>

\* the dict centroid_lonlat_of_change returns, or << >> for Python None
NoChange == << >>
CentroidLonLatOfChange(today, prev) ==
    IF ~today.some \/ ~prev.some THEN NoChange
    ELSE << [gained_centroid |-> SafeCentroid(GainedRegion(today, prev)),
             lost_centroid |-> SafeCentroid(LostRegion(today, prev))] >>


(***************************************************************************)
(* The pipeline run: main().                                               *)
(***************************************************************************)
VARIABLES
    pc,         \* position of the run in main(), or how it ended
    err,        \* the exception that ended the run ("" for none)
    idx,        \* data/deepstate_dates.json as the run finds it
    i_latest, i_prev, i_week,
    gj_latest, gj_prev, gj_week,
    a_latest, a_prev, a_week,
    d_day, d_week,
    daily, weekly,
    g_latest, g_prev,
    gained, lost,   \* locals of centroid_lonlat_of_change
    change,
    files,      \* the output files: << >> while absent, << record >> once written
    calls       \* results of the calls a function harness made, in order

vars == << pc, err, idx, i_latest, i_prev, i_week, gj_latest, gj_prev,
           gj_week, a_latest, a_prev, a_week, d_day, d_week, daily, weekly,
           g_latest, g_prev, gained, lost, change, files, calls >>

\* the date index: no file, a file that is no JSON, a JSON value that is no
\* list, or a chronological list of n well-formed entries; entry k (0-based)
\* has date k and names the snapshot file k
IndexInputs ==
    {[kind |-> k, n |-> 0] : k \in {"missing", "badjson", "notlist"}}
        \cup {[kind |-> "list", n |-> n] : n \in 0..MaxDates}

\* the snapshot documents a run may find on disk
PipelineFeatureLists ==
    { << >>,
      << NoGeom >>,
      << G({}) >>,
      << NotDict, G({1}) >>,
      << BadGeom, G({1}) >>,
      << G({1}) >>,
      << G({2}) >>,
      << G({1}), G({1, 2}) >>,
      << G({3}) >>,
      << G({1, 3}) >>,
      << G({2}), G({4}) >> }
PipelineDocs ==
    {Unreadable, NotObject} \cup {Doc(fs) : fs \in PipelineFeatureLists}

NoSummary ==
    [date |-> -1, occupied_km2 |-> 0, delta_km2 |-> 0,
     interpretation |-> "", vs_date |-> -1]
NoChangeRecord ==
    [gained_centroid |-> Null, lost_centroid |-> Null, date |-> -1,
     vs_date |-> -1]
OutNames == {"daily", "weekly", "change"}

Locals0 ==
    /\ err = ""
    /\ i_latest = 0 /\ i_prev = 0 /\ i_week = 0
    /\ gj_latest = NoDoc /\ gj_prev = NoDoc /\ gj_week = NoDoc
    /\ a_latest = 0 /\ a_prev = 0 /\ a_week = 0
    /\ d_day = 0 /\ d_week = 0
    /\ daily = NoSummary /\ weekly = NoSummary
    /\ g_latest = None /\ g_prev = None
    /\ gained = None /\ lost = None
    /\ change = NoChangeRecord
    /\ files = [f \in OutNames |-> << >>]
    /\ calls = << >>

Init ==
    /\ pc = "start"
    /\ idx \in IndexInputs
    /\ Locals0

\* an uncaught exception, or SystemExit, ends the run where it is
Abort(how, what) ==
    /\ pc' = how
    /\ err' = what

\* lines 117-118
CheckIndex ==
    /\ pc = "start"
    /\ IF idx.kind = "missing"
       THEN Abort("exit", "Missing data/deepstate_dates.json")
       ELSE pc' = "load_index" /\ err' = err
    /\ UNCHANGED << idx, i_latest, i_prev, i_week, gj_latest, gj_prev,
                    gj_week, a_latest, a_prev, a_week, d_day, d_week, daily,
                    weekly, g_latest, g_prev, gained, lost, change, files,
                    calls >>

\* the week index taken WeekBack before the previous snapshot
WeekIndexFromPrev(latest) == Max(0, (latest - 1) - WeekBack)

\* line 127: i_week = max(0, i_latest - 7)
WeekIndex(latest) == Max(0, latest - WeekBack)

\* lines 120-131
LoadIndex ==
    /\ pc = "load_index"
    /\ IF idx.kind = "badjson"
       THEN /\ Abort("raised", "JSONDecodeError")
            /\ UNCHANGED << i_latest, i_prev, i_week >>
       ELSE IF idx.kind # "list" \/ idx.n < 2
       THEN /\ Abort("exit", "deepstate_dates.json too short")
            /\ UNCHANGED << i_latest, i_prev, i_week >>
       ELSE /\ i_latest' = idx.n - 1
            /\ i_prev' = idx.n - 2
            /\ i_week' = WeekIndex(idx.n - 1)
            /\ pc' = "read_latest"
            /\ err' = err
    /\ UNCHANGED << idx, gj_latest, gj_prev, gj_week, a_latest, a_prev,
                    a_week, d_day, d_week, daily, weekly, g_latest, g_prev,
                    gained, lost, change, files, calls >>

\* lines 134, 138
ReadLatest ==
    /\ pc = "read_latest"
    /\ \E doc \in PipelineDocs :
         IF doc.kind = "unreadable"
         THEN Abort("raised", "read_json") /\ gj_latest' = gj_latest
         ELSE gj_latest' = doc /\ pc' = "read_prev" /\ err' = err
    /\ UNCHANGED << idx, i_latest, i_prev, i_week, gj_prev, gj_week,
                    a_latest, a_prev, a_week, d_day, d_week, daily, weekly,
                    g_latest, g_prev, gained, lost, change, files, calls >>

\* lines 135, 139
ReadPrev ==
    /\ pc = "read_prev"
    /\ \E doc \in PipelineDocs :
         IF doc.kind = "unreadable"
         THEN Abort("raised", "read_json") /\ gj_prev' = gj_prev
         ELSE gj_prev' = doc /\ pc' = "read_week" /\ err' = err
    /\ UNCHANGED << idx, i_latest, i_prev, i_week, gj_latest, gj_week,
                    a_latest, a_prev, a_week, d_day, d_week, daily, weekly,
                    g_latest, g_prev, gained, lost, change, files, calls >>

\* lines 136, 140: the file read a second time holds what it held
ReadWeek ==
    /\ pc = "read_week"
    /\ \E doc \in PipelineDocs :
         /\ i_week = i_prev => doc = gj_prev
         /\ IF doc.kind = "unreadable"
            THEN Abort("raised", "read_json") /\ gj_week' = gj_week
            ELSE gj_week' = doc /\ pc' = "areas" /\ err' = err
    /\ UNCHANGED << idx, i_latest, i_prev, i_week, gj_latest, gj_prev,
                    a_latest, a_prev, a_week, d_day, d_week, daily, weekly,
                    g_latest, g_prev, gained, lost, change, files, calls >>

\* lines 142-144
ComputeAreas ==
    /\ pc = "areas"
    /\ LET r1 == AreaKm2OfGeojson(gj_latest)
           r2 == AreaKm2OfGeojson(gj_prev)
           r3 == AreaKm2OfGeojson(gj_week)
       IN  IF r1.raised \/ r2.raised \/ r3.raised
           THEN /\ Abort("raised", "AttributeError")
                /\ UNCHANGED << a_latest, a_prev, a_week >>
           ELSE /\ a_latest' = r1.val
                /\ a_prev' = r2.val
                /\ a_week' = r3.val
                /\ pc' = "compose"
                /\ err' = err
    /\ UNCHANGED << idx, i_latest, i_prev, i_week, gj_latest, gj_prev,
                    gj_week, d_day, d_week, daily, weekly, g_latest, g_prev,
                    gained, lost, change, files, calls >>

\* SummaryRecord: lines 149-155 and 156-162
Summary(date, occupied, delta_km2, delta, vs) ==
    [date |-> date, occupied_km2 |-> occupied, delta_km2 |-> delta_km2,
     interpretation |-> SideFromDelta(delta), vs_date |-> vs]

\* lines 146-162
Compose ==
    /\ pc = "compose"
    /\ d_day' = a_latest - a_prev
    /\ d_week' = a_latest - a_week
    /\ \E occ \in Round2(a_latest) :
         /\ \E dd \in Fmt(a_latest - a_prev) :
              daily' = Summary(i_latest, occ, dd, a_latest - a_prev, i_prev)
         /\ \E dw \in Fmt(a_latest - a_week) :
              weekly' = Summary(i_latest, occ, dw, a_latest - a_week, i_week)
    /\ pc' = "merge"
    /\ UNCHANGED << err, idx, i_latest, i_prev, i_week, gj_latest, gj_prev,
                    gj_week, a_latest, a_prev, a_week, g_latest, g_prev,
                    gained, lost, change, files, calls >>

\* lines 165-166
MergeGeoms ==
    /\ pc = "merge"
    /\ LET r1 == MergedGeom(gj_latest)
           r2 == MergedGeom(gj_prev)
       IN  IF r1.raised \/ r2.raised
           THEN Abort("raised", "AttributeError") /\ UNCHANGED << g_latest, g_prev >>
           ELSE /\ g_latest' = r1.val
                /\ g_prev' = r2.val
                /\ pc' = "localize"
                /\ err' = err
    /\ UNCHANGED << idx, i_latest, i_prev, i_week, gj_latest, gj_prev,
                    gj_week, a_latest, a_prev, a_week, d_day, d_week, daily,
                    weekly, gained, lost, change, files, calls >>

\* line 167 without its "or {...}" default
ChangeOrNone(res) == res

\* line 167: centroid_lonlat_of_change(...) or {"gained_centroid": None, ...};
\* << >> stands for Python None, << d >> for the dict d
ChangeOrDefault(res) ==
    IF res = NoChange
    THEN << [gained_centroid |-> Null, lost_centroid |-> Null] >>
    ELSE res

\* lines 168-171: change.update({"date": ..., "vs_date": ...})
WithDates(c, date, vs) ==
    [gained_centroid |-> c.gained_centroid, lost_centroid |-> c.lost_centroid,
     date |-> date, vs_date |-> vs]

\* lines 167-171 (and 95-113 in the call); None.update raises AttributeError
LocalizeChange ==
    /\ pc = "localize"
    /\ IF g_latest.some /\ g_prev.some
       THEN /\ gained' = GainedRegion(g_latest, g_prev)
            /\ lost' = LostRegion(g_latest, g_prev)
       ELSE UNCHANGED << gained, lost >>
    /\ LET c == ChangeOrDefault(CentroidLonLatOfChange(g_latest, g_prev))
       IN  IF c = << >>
           THEN Abort("raised", "NoneType.update") /\ change' = change
           ELSE /\ change' = WithDates(c[1], i_latest, i_prev)
                /\ pc' = "write_daily"
                /\ err' = err
    /\ UNCHANGED << idx, i_latest, i_prev, i_week, gj_latest, gj_prev,
                    gj_week, a_latest, a_prev, a_week, d_day, d_week, daily,
                    weekly, g_latest, g_prev, files, calls >>

\* Path.write_text: the file holds the record, or OSError is raised
WriteStep(at, name, rec, next) ==
    /\ pc = at
    /\ \E ok \in BOOLEAN :
         IF ok
         THEN /\ files' = [files EXCEPT ![name] = << rec >>]
              /\ pc' = next
              /\ err' = err
         ELSE Abort("raised", "OSError") /\ files' = files
    /\ UNCHANGED << idx, i_latest, i_prev, i_week, gj_latest, gj_prev,
                    gj_week, a_latest, a_prev, a_week, d_day, d_week, daily,
                    weekly, g_latest, g_prev, gained, lost, change, calls >>

\* line 173
WriteDaily == WriteStep("write_daily", "daily", daily, "write_weekly")
\* line 174
WriteWeekly == WriteStep("write_weekly", "weekly", weekly, "write_change")
\* line 175
WriteChange == WriteStep("write_change", "change", change, "print")

\* line 177
Finish ==
    /\ pc = "print"
    /\ pc' = "done"
    /\ UNCHANGED << err, idx, i_latest, i_prev, i_week, gj_latest, gj_prev,
                    gj_week, a_latest, a_prev, a_week, d_day, d_week, daily,
                    weekly, g_latest, g_prev, gained, lost, change, files,
                    calls >>

Next ==
    \/ CheckIndex
    \/ LoadIndex
    \/ ReadLatest
    \/ ReadPrev
    \/ ReadWeek
    \/ ComputeAreas
    \/ Compose
    \/ MergeGeoms
    \/ LocalizeChange
    \/ WriteDaily
    \/ WriteWeekly
    \/ WriteChange
    \/ Finish

Spec == Init /\ [][Next]_vars

\* the run is over: it returned, exited or raised
Ended == pc \in {"done", "exit", "raised"}


(***************************************************************************)
(* The merge functions alone: merged_geom and area_km2_of_geojson are      *)
(* called on one document, whose feature list is any list of at most       *)
(* MaxFeats features.                                                      *)
(***************************************************************************)
RECURSIVE FeatureLists(_)
FeatureLists(n) ==
    IF n = 0 THEN {<< >>}
    ELSE LET shorter == FeatureLists(n - 1)
         IN  shorter \cup {Append(fs, f) : fs \in shorter, f \in Features}

MergeDocs == {NotObject} \cup {Doc(fs) : fs \in FeatureLists(MaxFeats)}

InitMerge ==
    /\ pc = "harness"
    /\ idx = [kind |-> "list", n |-> 2]
    /\ err = ""
    /\ i_latest = 0 /\ i_prev = 0 /\ i_week = 0
    /\ gj_latest \in MergeDocs
    /\ gj_prev = NoDoc /\ gj_week = NoDoc
    /\ a_latest = 0 /\ a_prev = 0 /\ a_week = 0
    /\ d_day = 0 /\ d_week = 0
    /\ daily = NoSummary /\ weekly = NoSummary
    /\ g_latest = None /\ g_prev = None
    /\ gained = None /\ lost = None
    /\ change = NoChangeRecord
    /\ files = [f \in OutNames |-> << >>]
    /\ calls = << >>

\* g = merged_geom(doc)
CallMergedGeom ==
    /\ pc = "harness"
    /\ Len(calls) = 0
    /\ calls' = Append(calls, MergedGeom(gj_latest))
    /\ UNCHANGED << pc, err, idx, i_latest, i_prev, i_week, gj_latest,
                    gj_prev, gj_week, a_latest, a_prev, a_week, d_day,
                    d_week, daily, weekly, g_latest, g_prev, gained, lost,
                    change, files >>

\* a = area_km2_of_geojson(doc)
CallAreaKm2OfGeojson ==
    /\ pc = "harness"
    /\ Len(calls) = 1
    /\ calls' = Append(calls, AreaKm2OfGeojson(gj_latest))
    /\ UNCHANGED << pc, err, idx, i_latest, i_prev, i_week, gj_latest,
                    gj_prev, gj_week, a_latest, a_prev, a_week, d_day,
                    d_week, daily, weekly, g_latest, g_prev, gained, lost,
                    change, files >>

NextMerge == CallMergedGeom \/ CallAreaKm2OfGeojson

SpecMerge == InitMerge /\ [][NextMerge]_vars

(***************************************************************************)
(* The change localizer alone: centroid_lonlat_of_change is called on any  *)
(* two regions (None included), then on the same two swapped.              *)
(***************************************************************************)
InitChange ==
    /\ pc = "harness"
    /\ idx = [kind |-> "list", n |-> 2]
    /\ err = ""
    /\ i_latest = 0 /\ i_prev = 0 /\ i_week = 0
    /\ gj_latest = NoDoc /\ gj_prev = NoDoc /\ gj_week = NoDoc
    /\ a_latest = 0 /\ a_prev = 0 /\ a_week = 0
    /\ d_day = 0 /\ d_week = 0
    /\ daily = NoSummary /\ weekly = NoSummary
    /\ g_latest \in Regions /\ g_prev \in Regions
    /\ gained = None /\ lost = None
    /\ change = NoChangeRecord
    /\ files = [f \in OutNames |-> << >>]
    /\ calls = << >>

\* one call: the locals gained and lost (None when the call returns before
\* computing them) and the value returned
ChangeCall(today, prev) ==
    [gained |-> IF today.some /\ prev.some THEN GainedRegion(today, prev) ELSE None,
     lost |-> IF today.some /\ prev.some THEN LostRegion(today, prev) ELSE None,
     out |-> CentroidLonLatOfChange(today, prev)]

\* centroid_lonlat_of_change(g_latest, g_prev)
CallChange ==
    /\ pc = "harness"
    /\ Len(calls) = 0
    /\ calls' = Append(calls, ChangeCall(g_latest, g_prev))
    /\ UNCHANGED << pc, err, idx, i_latest, i_prev, i_week, gj_latest,
                    gj_prev, gj_week, a_latest, a_prev, a_week, d_day,
                    d_week, daily, weekly, g_latest, g_prev, gained, lost,
                    change, files >>

\* centroid_lonlat_of_change(g_prev, g_latest)
CallChangeSwapped ==
    /\ pc = "harness"
    /\ Len(calls) = 1
    /\ calls' = Append(calls, ChangeCall(g_prev, g_latest))
    /\ UNCHANGED << pc, err, idx, i_latest, i_prev, i_week, gj_latest,
                    gj_prev, gj_week, a_latest, a_prev, a_week, d_day,
                    d_week, daily, weekly, g_latest, g_prev, gained, lost,
                    change, files >>

NextChange == CallChange \/ CallChangeSwapped

SpecChange == InitChange /\ [][NextChange]_vars

(***************************************************************************)
(* The summary composer alone: lines 146-162 of main() run on area figures *)
(* whose deltas are the spec's examples, or lie within MaxOffset of 0 or   *)
(* of the rounding threshold on either side.                               *)
(***************************************************************************)
ExampleDeltas == {12300, -10, 0, 99999, 150456, -99999, -150456}
DeltaInputs ==
    ExampleDeltas
        \cup (-MaxOffset .. MaxOffset)
        \cup {FmtThresholdKm2 * 1000 + k : k \in -MaxOffset .. MaxOffset}
        \cup {-(FmtThresholdKm2 * 1000) + k : k \in -MaxOffset .. MaxOffset}
WeekDeltaInputs == {0, 4, -150456, 100050}
LatestAreaInputs == {150456, 200004}

InitCompose ==
    /\ pc = "compose"
    /\ idx = [kind |-> "list", n |-> 2]
    /\ err = ""
    /\ i_latest = 1 /\ i_prev = 0 /\ i_week = 0
    /\ gj_latest = NoDoc /\ gj_prev = NoDoc /\ gj_week = NoDoc
    /\ a_latest \in LatestAreaInputs
    /\ \E d \in DeltaInputs : a_prev = a_latest - d
    /\ \E d \in WeekDeltaInputs : a_week = a_latest - d
    /\ d_day = 0 /\ d_week = 0
    /\ daily = NoSummary /\ weekly = NoSummary
    /\ g_latest = None /\ g_prev = None
    /\ gained = None /\ lost = None
    /\ change = NoChangeRecord
    /\ files = [f \in OutNames |-> << >>]
    /\ calls = << >>

NextCompose == Compose

SpecCompose == InitCompose /\ [][NextCompose]_vars


(***************************************************************************)
(* Claims.                                                                 *)
(***************************************************************************)
Written(name) == files[name] # << >>

\* the valid geometries of a feature list: those shape() accepts
RECURSIVE ValidCells(_)
ValidCells(feats) ==
    IF feats = << >> THEN {}
    ELSE (IF Head(feats).kind = "geom" THEN Head(feats).cells ELSE {})
             \cup ValidCells(Tail(feats))

HasValid(feats) == \E k \in 1..Len(feats) : feats[k].kind = "geom"

\* C1: every run of main() ends having emitted all three output records
\* (daily, weekly, change), whatever its input: no error along the way
\* prevents the emission.
C1_AllRecordsEmitted ==
    Ended => \A name \in OutNames : Written(name)

\* C2: merging a feature list never aborts: every malformed or absent entry
\* is skipped, merged_geom returns the union of exactly the valid geometries
\* (None when there is none), and area_km2_of_geojson keeps and skips the
\* same features (it aborts on none either).
C2_MergeSkipsBadEntries ==
    (gj_latest.kind = "object" /\ Len(calls) >= 1) =>
        /\ ~calls[1].raised
        /\ calls[1].val = IF HasValid(gj_latest.features)
                          THEN Geom(ValidCells(gj_latest.features))
                          ELSE None
        /\ Len(calls) >= 2 => ~calls[2].raised

\* a snapshot with zero valid geometries
EmptySnapshot(doc) == doc.kind = "object" /\ ~HasValid(doc.features)

\* C3: when the previous snapshot has zero valid geometries and the current
\* one is a non-empty region R of area A, the run's records carry
\* occupied_km2 = A and delta_km2 = A (as rounded), the gain label,
\* gained_centroid = the centroid of R and lost_centroid = null; and with
\* the two snapshots exchanged, a total loss whose lost_centroid is the
\* centroid of the previous region.
C3_EmptySnapshotParticipates ==
    (pc = "done" /\ gj_latest.kind = "object" /\ gj_prev.kind = "object") =>
        /\ (EmptySnapshot(gj_prev) /\ a_latest > 0) =>
               /\ files["daily"][1].occupied_km2 \in Round2(a_latest)
               /\ files["daily"][1].delta_km2 \in Fmt(a_latest)
               /\ files["daily"][1].interpretation = GainLabel
               /\ files["change"][1].gained_centroid
                      = SafeCentroid(Geom(ValidCells(gj_latest.features)))
               /\ files["change"][1].lost_centroid = Null
        /\ (EmptySnapshot(gj_latest) /\ a_prev > 0) =>
               /\ files["daily"][1].occupied_km2 = 0
               /\ files["daily"][1].delta_km2 \in Fmt(-a_prev)
               /\ files["daily"][1].interpretation = RecaptureLabel
               /\ files["change"][1].lost_centroid
                      = SafeCentroid(Geom(ValidCells(gj_prev.features)))
               /\ files["change"][1].gained_centroid = Null

\* both calls of the change harness were given regions, not None
BothPresent == g_latest.some /\ g_prev.some

\* C4: for all merged regions current and previous, the gained region
\* (current minus previous) and the lost region (previous minus current) of
\* the change localizer share no point, and each lies within the union of
\* current and previous.
C4_GainedLostDisjoint ==
    (Len(calls) >= 1 /\ BothPresent) =>
        /\ calls[1].gained.some /\ calls[1].lost.some
        /\ calls[1].gained.cells \cap calls[1].lost.cells = {}
        /\ calls[1].gained.cells \subseteq g_latest.cells \cup g_prev.cells
        /\ calls[1].lost.cells \subseteq g_latest.cells \cup g_prev.cells

\* C4's case: territory was gained and other territory lost in one call
C4_Witness ==
    /\ Len(calls) >= 1 /\ BothPresent
    /\ calls[1].gained.cells # {}
    /\ calls[1].lost.cells # {}
    /\ g_latest.cells \cap g_prev.cells # {}

\* C5: swapping the two arguments of the change localizer swaps its outputs:
\* the gained region of (A, B) is the lost region of (B, A) and the other
\* way round, so gained_centroid of (A, B) equals lost_centroid of (B, A)
\* and lost_centroid of (A, B) equals gained_centroid of (B, A); when a call
\* returns None, so does the swapped call.
C5_SwapSwapsOutputs ==
    Len(calls) = 2 =>
        /\ calls[1].gained = calls[2].lost
        /\ calls[1].lost = calls[2].gained
        /\ (calls[1].out = NoChange) <=> (calls[2].out = NoChange)
        /\ calls[1].out # NoChange =>
               /\ calls[1].out[1].gained_centroid = calls[2].out[1].lost_centroid
               /\ calls[1].out[1].lost_centroid = calls[2].out[1].gained_centroid

\* C5's case: both calls made on two different regions, one side of the
\* change empty and the other not
C5_Witness ==
    /\ Len(calls) = 2 /\ BothPresent
    /\ calls[1].out[1].gained_centroid # Null
    /\ calls[1].out[1].lost_centroid = Null
    /\ calls[2].out[1].lost_centroid # Null

\* e is d rounded by the policy: to 1 decimal (a multiple of 100
\* thousandths) when |d| >= 100 km^2, to 2 decimals (a multiple of 10
\* thousandths) otherwise, the threshold tested on the unrounded d
PolicyRounded(e, d) ==
    LET unit == IF Abs(d) >= 100000 THEN 100 ELSE 10
    IN  /\ e % unit = 0
        /\ 2 * Abs(e - d) <= unit

\* the spec's rounding examples, on either sign
RoundingExamples(e, d) ==
    /\ d = 99999 => e = 100000
    /\ d = 150456 => e = 150500
    /\ d = -99999 => e = -100000
    /\ d = -150456 => e = -150500

\* C6: the emitted delta_km2 is the delta (current area minus comparison
\* area) rounded to 1 decimal when the unrounded |delta| >= 100 and to 2
\* decimals otherwise: 99.999 gives 100.00 and 150.456 gives 150.5, for
\* positive and negative deltas alike.
C6_DeltaRoundingPolicy ==
    pc = "merge" =>
        /\ d_day = a_latest - a_prev
        /\ d_week = a_latest - a_week
        /\ PolicyRounded(daily.delta_km2, a_latest - a_prev)
        /\ PolicyRounded(weekly.delta_km2, a_latest - a_week)
        /\ RoundingExamples(daily.delta_km2, a_latest - a_prev)
        /\ RoundingExamples(weekly.delta_km2, a_latest - a_week)

\* C6's case: a daily delta of 99.999 emitted as 100.00 beside a weekly
\* delta of -150.456 emitted as -150.5
C6_Witness ==
    /\ pc = "merge"
    /\ a_latest - a_prev = 99999 /\ daily.delta_km2 = 100000
    /\ a_latest - a_week = -150456 /\ weekly.delta_km2 = -150500

\* label is the one the sign of d selects
SignLabel(label, d) ==
    /\ d > 0 => label = GainLabel
    /\ d < 0 => label = RecaptureLabel
    /\ d = 0 => label = NoChangeLabel

\* C7: the interpretation label of a summary record is a total three-way
\* function of the sign of the delta: gain for delta > 0, recapture for
\* delta < 0, no-change for delta = 0, exactly one of three distinct labels
\* (+12.3 gives gain, -0.01 recapture, 0 no-change).
C7_InterpretationBySign ==
    pc = "merge" =>
        /\ Cardinality({GainLabel, RecaptureLabel, NoChangeLabel}) = 3
        /\ SignLabel(daily.interpretation, a_latest - a_prev)
        /\ SignLabel(weekly.interpretation, a_latest - a_week)
        /\ a_latest - a_prev = 12300 => daily.interpretation = GainLabel
        /\ a_latest - a_prev = -10 => daily.interpretation = RecaptureLabel
        /\ a_latest - a_prev = 0 => daily.interpretation = NoChangeLabel

\* C7's case: a record of a -0.01 delta beside a record of a zero delta
C7_Witness ==
    /\ pc = "merge"
    /\ a_latest - a_prev = -10 /\ daily.interpretation = RecaptureLabel
    /\ a_latest - a_week = 0 /\ weekly.interpretation = NoChangeLabel

\* unsigned exterior area minus the unsigned area of each hole, in m^2
Residual(i) == Abs(ExteriorSignedM2(i)) - SumSeqAbs(InteriorsSignedM2(i))

RECURSIVE SumResiduals(_)
SumResiduals(cells) ==
    IF cells = {} THEN 0
    ELSE LET p == CHOOSE q \in cells : TRUE
         IN  Residual(p) + SumResiduals(cells \ {p})

RECURSIVE SumClampedResiduals(_)
SumClampedResiduals(cells) ==
    IF cells = {} THEN 0
    ELSE LET p == CHOOSE q \in cells : TRUE
         IN  Max(0, Residual(p)) + SumClampedResiduals(cells \ {p})

\* the area call of the merge harness returned, for a document whose valid
\* geometries merge into a polygon or multi-polygon
MeasuredPolygons ==
    /\ Len(calls) = 2
    /\ ~calls[2].raised
    /\ HasValid(gj_latest.features)
    /\ ValidCells(gj_latest.features) # {}
    /\ ValidCells(gj_latest.features) \subseteq Islands

\* C8 as stated: the area of a merged region is the sum over its polygons
\* of (|outer| - sum |holes|), clamped to non-negative once, on the final
\* result, and divided by 1,000,000 into km^2.
C8_ClampOnFinalSum ==
    MeasuredPolygons =>
        calls[2].val
            = Max(0, SumResiduals(ValidCells(gj_latest.features))) \div 1000

\* C8 as amended: the clamp to non-negative is applied to each polygon's
\* value, |outer| - sum |holes|, before the sum over the polygons; the sum
\* is divided by 1,000,000 into km^2.
C8_ClampPerPolygon ==
    MeasuredPolygons =>
        calls[2].val
            = SumClampedResiduals(ValidCells(gj_latest.features)) \div 1000

\* C8's case: a multi-polygon of holed polygons, one with a hole larger
\* than its outer ring, has been measured
C8_Witness ==
    /\ MeasuredPolygons
    /\ ValidCells(gj_latest.features) = {2, 3}
    /\ calls[2].val = 150456

\* C9: the area figure of every snapshot is non-negative, even when a hole
\* is larger than its outer ring; a snapshot with zero valid geometries, or
\* an empty merged region, has area exactly 0; so occupied_km2 of every
\* emitted record is >= 0.
C9_AreaNonNegative ==
    /\ a_latest >= 0 /\ a_prev >= 0 /\ a_week >= 0
    /\ pc \in {"compose", "merge", "localize", "write_daily", "write_weekly",
               "write_change", "print", "done"} =>
           /\ ValidCells(gj_latest.features) = {} => a_latest = 0
           /\ ValidCells(gj_prev.features) = {} => a_prev = 0
           /\ ValidCells(gj_week.features) = {} => a_week = 0
    /\ daily.occupied_km2 >= 0 /\ weekly.occupied_km2 >= 0
    /\ \A name \in {"daily", "weekly"} :
           Written(name) => files[name][1].occupied_km2 >= 0

\* C9's case: records emitted for a snapshot that is one polygon whose hole
\* is larger than its outer ring, compared with an empty snapshot
C9_Witness ==
    /\ Written("daily") /\ Written("weekly")
    /\ ValidCells(gj_latest.features) = {3}
    /\ Residual(3) < 0
    /\ EmptySnapshot(gj_prev)
    /\ files["daily"][1].occupied_km2 = 0

\* the run is past line 171
AfterLocalize ==
    \/ pc \in {"write_daily", "write_weekly", "write_change", "print", "done"}
    \/ pc = "raised" /\ err = "OSError"

\* C10: when either region given to the change localizer is None, no error
\* is raised and the change record is well-formed: gained_centroid = null
\* and lost_centroid = null together with date and vs_date; that record is
\* the one emitted.
C10_AbsentRegionGivesNullRecord ==
    /\ err # "NoneType.update"
    /\ (AfterLocalize /\ (~g_latest.some \/ ~g_prev.some)) =>
           /\ change = [gained_centroid |-> Null, lost_centroid |-> Null,
                        date |-> i_latest, vs_date |-> i_prev]
           /\ Written("change") => files["change"][1] = change

\* C10's case: a run whose previous region is None while the latest is not
\* has emitted its change record
C10_Witness ==
    /\ pc = "done"
    /\ g_latest.some /\ g_latest.cells # {}
    /\ ~g_prev.some
    /\ Written("change")

\* C11: when both regions are present, gained_centroid is null exactly when
\* current minus previous is empty and lost_centroid is null exactly when
\* previous minus current is empty: an empty difference never gets a default
\* coordinate and a non-empty one always gets a centroid; two identical
\* snapshots yield delta_km2 = 0.00 with both centroids null.
C11_NullIffDifferenceEmpty ==
    /\ (AfterLocalize /\ g_latest.some /\ g_prev.some) =>
           /\ (change.gained_centroid = Null)
                  <=> (g_latest.cells \ g_prev.cells = {})
           /\ (change.lost_centroid = Null)
                  <=> (g_prev.cells \ g_latest.cells = {})
           /\ change.gained_centroid # Null => Len(change.gained_centroid) = 2
           /\ change.lost_centroid # Null => Len(change.lost_centroid) = 2
           /\ Written("change") => files["change"][1] = change
    /\ (AfterLocalize /\ gj_latest = gj_prev) =>
           /\ daily.delta_km2 = 0
           /\ change.gained_centroid = Null
           /\ change.lost_centroid = Null

\* C11's case: a change record emitted for two present regions, territory
\* gained (a centroid) and none lost (null)
C11_Witness ==
    /\ pc = "done"
    /\ g_latest.some /\ g_prev.some
    /\ g_prev.cells # {}
    /\ g_latest.cells \ g_prev.cells # {}
    /\ g_prev.cells \ g_latest.cells = {}
    /\ Len(files["change"][1].gained_centroid) = 2
    /\ files["change"][1].lost_centroid = Null

\* the run has loaded a date index of n >= 2 entries
IndexLoaded ==
    pc \in {"read_latest", "read_prev", "read_week", "areas", "compose",
            "merge", "localize", "write_daily", "write_weekly",
            "write_change", "print", "done"}
        \/ (pc = "raised" /\ err # "JSONDecodeError")

\* the records of a finished run name the snapshots compared: both summary
\* records carry the latest date and the same occupied_km2, each vs_date is
\* the position compared against, strictly earlier than the latest
RecordsNameSnapshots ==
    pc = "done" =>
        /\ files["daily"][1].date = idx.n - 1
        /\ files["weekly"][1].date = idx.n - 1
        /\ files["change"][1].date = idx.n - 1
        /\ files["daily"][1].occupied_km2 = files["weekly"][1].occupied_km2
        /\ files["daily"][1].vs_date = i_prev
        /\ files["change"][1].vs_date = i_prev
        /\ files["weekly"][1].vs_date = i_week
        /\ i_prev < idx.n - 1
        /\ i_week < idx.n - 1

\* C12 as stated: for an index of n >= 2 snapshots a run processes exactly
\* three snapshots: the latest (n-1), the one before it (n-2) for the daily
\* and change records, and the one 7 positions before the latest for the
\* weekly record; both summary records carry the latest date and the same
\* occupied_km2, and each vs_date is the date compared against, strictly
\* earlier than the latest.
C12_WeekIsSevenBack ==
    /\ IndexLoaded =>
           /\ idx.kind = "list" /\ idx.n >= 2
           /\ i_latest = idx.n - 1
           /\ i_prev = idx.n - 2
           /\ i_week = (idx.n - 1) - 7
           /\ Cardinality({i_latest, i_prev, i_week}) = 3
    /\ RecordsNameSnapshots

\* C12 as amended: the weekly record compares with the snapshot 7 positions
\* before the latest when the index has at least 8 entries and with the
\* first snapshot (position 0) otherwise; with n = 2 that is the preceding
\* snapshot itself, read a second time, so the run processes two distinct
\* snapshots, and three for every n >= 3.
C12_WeekIsSevenBackOrFirst ==
    /\ IndexLoaded =>
           /\ idx.kind = "list" /\ idx.n >= 2
           /\ i_latest = idx.n - 1
           /\ i_prev = idx.n - 2
           /\ i_week = IF idx.n >= 8 THEN (idx.n - 1) - 7 ELSE 0
           /\ Cardinality({i_latest, i_prev, i_week})
                  = IF idx.n = 2 THEN 2 ELSE 3
    /\ (pc \in {"areas", "compose", "merge", "localize", "write_daily",
                "write_weekly", "write_change", "print", "done"}
            /\ i_week = i_prev) => gj_week = gj_prev
    /\ RecordsNameSnapshots

\* C12's case: a finished run on an index of 9 entries, its weekly record
\* compared with position 1 and its daily record with position 7
C12_Witness ==
    /\ pc = "done"
    /\ idx.n = 9
    /\ files["weekly"][1].vs_date = 1
    /\ files["daily"][1].vs_date = 7
    /\ files["weekly"][1].date = 8

\* label and emitted delta of one record agree strictly
AgreesStrictly(rec) ==
    /\ (rec.interpretation = NoChangeLabel) <=> (rec.delta_km2 = 0)
    /\ rec.interpretation = GainLabel => rec.delta_km2 > 0
    /\ rec.interpretation = RecaptureLabel => rec.delta_km2 < 0

\* label and emitted delta of one record never point opposite ways
NeverOpposite(rec) ==
    /\ rec.interpretation \in {GainLabel, RecaptureLabel, NoChangeLabel}
    /\ rec.interpretation = NoChangeLabel => rec.delta_km2 = 0
    /\ rec.interpretation = GainLabel => rec.delta_km2 >= 0
    /\ rec.interpretation = RecaptureLabel => rec.delta_km2 <= 0
    /\ rec.delta_km2 > 0 => rec.interpretation = GainLabel
    /\ rec.delta_km2 < 0 => rec.interpretation = RecaptureLabel

\* C13 as stated: in every daily or weekly record the label agrees with the
\* sign of the emitted (policy-rounded) delta_km2: no-change if and only if
\* delta_km2 is 0, gain only when delta_km2 > 0, recapture only when
\* delta_km2 < 0.
C13_LabelAgreesWithEmittedDelta ==
    pc = "merge" => AgreesStrictly(daily) /\ AgreesStrictly(weekly)

\* C13 as amended: the label never contradicts the emitted delta_km2: a
\* positive delta_km2 carries the gain label, a negative one the recapture
\* label, and the no-change label comes only with delta_km2 = 0; a
\* delta_km2 of 0 can carry the gain or the recapture label, when a
\* non-zero delta rounds to 0.00.
C13_LabelNeverOpposesEmittedDelta ==
    pc = "merge" => NeverOpposite(daily) /\ NeverOpposite(weekly)

\* C13's case: a delta of 0.004 km^2 emitted as 0.00 under the gain label
C13_Witness ==
    /\ pc = "merge"
    /\ a_latest - a_prev = 4
    /\ daily.delta_km2 = 0
    /\ daily.interpretation = GainLabel

=============================================================================
